---- MODULE Spec2Model ----
(***************************************************************************)
(* Provider orchestration of the Stockron backend: MasterAgent round-robins *)
(* over a pool of YahooAgent clients with per-client cooldown and falls     *)
(* back to AlphaAgent (src/src/providers).  A request is modelled line by   *)
(* line so that requests of two threads can interleave.  NewsMasterAgent    *)
(* and a single YahooAgent driven call by call are modelled beside it.      *)
(***************************************************************************)
EXTENDS Integers, Sequences, FiniteSets, TLC

\* ---- bounds of the model ------------------------------------------------
MaxPool == 3
MaxRequests == 3
MaxConcRequests == 2
MaxLiveRequests == 2
MaxSlowCalls == 1
MaxTime == 317
StartTime == 1
MaxItems == 3
MaxNewsRequests == 3
MaxClock == 5
MaxSeconds == 3

\* ---- program constants --------------------------------------------------
CooldownSecs == 300
CallSecs == 8

Threads == {"t1", "t2"}
Pool(len) == 0..(len - 1)
\* requests overlap only on pools no larger than the number of threads
ConcPool == Cardinality(Threads)
IdleWaits == {CooldownSecs}
CallDelays == {0, CallSecs}

VARIABLES
    n,               \* len(self.yahoo_agents)
    index,           \* MasterAgent.index
    cooldown_until,  \* YahooAgent.cooldown_until, per pool position
    now,             \* time.time()
    pc,              \* per thread: the line the request is at
    attempt,         \* per thread: loop variable of fetch_financials
    attempts,        \* per thread: loop variable of _get_next_yahoo
    agent,           \* per thread: pool position held in `agent`
    tmp,             \* per thread: self.index as read on line 21
    result,          \* per thread: value handed to the caller
    tried,           \* history: <<position, kind>> of each primary fetch of the request
    swept,           \* history: positions examined by the selection in progress
    sole,            \* history: the selected client was the only available one
    allAvail,        \* history: every client was available when the request began
    alphaCalls,      \* history: calls of alpha.fetch made by the request
    alphaOut,        \* history: what the upstream gave the request's alpha.fetch
    slowCalls,       \* history: upstream calls that took CallSecs
    reqs,            \* history: requests begun
    served,          \* history: requests completed
    selCount,        \* history: per position, selections while every request was clean
    clean,           \* history: every request so far succeeded on its first attempt
    soleFail,        \* history: per position, when the handler cooled it as sole available client
    selStart,        \* history: per thread, self.index when _get_next_yahoo was entered
    hit429,          \* history: per thread, the request of the fetch just made that got HTTP 429
    fallback,        \* history: per thread, fallback providers called by the request, in order
    \* NewsMasterAgent
    news_index,      \* NewsMasterAgent.index
    news_pc,         \* where the news request is
    news_i,          \* loop variable i of get_news
    raw_news,        \* raw_news of the fetch that succeeded
    news_result,     \* value get_news returned
    news_handed,     \* value MasterAgent.fetch_news handed its caller
    news_called,     \* history: agents whose fetch the request called, in order
    news_failed,     \* history: positions in raw_news whose translation raised
    news_start,      \* history: news_index when the request began
    news_reqs,       \* history: news requests begun
    \* one YahooAgent, called directly
    impl,            \* which yahoo_agent.py the client is built from
    c_cooldown_until,\* its cooldown_until
    clock,           \* time.time()
    seen,            \* history: the last is_available call since the last set_cooldown
    lastSet          \* history: the last set_cooldown call

newsVars == <<news_index, news_pc, news_i, raw_news, news_result, news_handed,
              news_called, news_failed, news_start, news_reqs>>
clientVars == <<impl, c_cooldown_until, clock, seen, lastSet>>

masterVars == <<n, index, cooldown_until, now, pc, attempt, attempts, agent,
                tmp, result, tried, swept, sole, allAvail, alphaCalls,
                alphaOut, slowCalls, reqs, served, selCount, clean, soleFail,
                selStart, hit429, fallback>>

vars == <<newsVars, clientVars, masterVars>>

\* ---- values -------------------------------------------------------------
None == [py |-> "None"]
Unset == [py |-> "unset"]
NoAgent == -1
Never == -1
Coroutine == [py |-> "coroutine"]
NoCall == [py |-> "no call"]

\* YahooAgent.name of the client at pool position a
AgentName(a) == <<"YahooAgent", a + 1>>

\* fields parse_quote_summary fills in; {} is the empty dict
QuoteFields == {"company_name", "currentPrice", "symbol"}
EmptyDict == {}

\* ---- YahooAgent ---------------------------------------------------------
is_available_always(cd, t) == TRUE
is_available(cd, t) == t >= cd

\* is_available of src/yahoo_agent.py
root_is_available(cd, t) == t > cd

set_cooldown_forgets(t, seconds) == t
set_cooldown_relative(t, seconds) == seconds
set_cooldown_double(t, seconds) == t + seconds + seconds
set_cooldown(t, seconds) == t + seconds

\* "ratelimit" in str(e).lower()
IsRateLimitText(msg) == msg \in {"RateLimit", "ratelimit"}

\* what one upstream GET can do
ChartOutcomes == {"ok", "noresult", "http429", "httperror", "exception"}
QuoteOutcomes == {"ok", "noresult", "http429", "httperror", "exception"}

\* message of the exception an outcome raises inside the try block ("" : none)
RaisedText(o) ==
    CASE o = "http429" -> "RateLimit"
      [] o = "exception" -> "Expecting value"
      [] OTHER -> ""

\* the except clauses of fetch: httpx.HTTPError and other exceptions are
\* swallowed, an exception whose text holds "ratelimit" is raised again
Reraised(o) == o \in {"http429", "exception"} /\ IsRateLimitText(RaisedText(o))

\* which request of fetch was answered with HTTP 429 (the quote-summary request
\* is made whenever the chart request was not)
Saw429(oc, oq) ==
    IF oc = "http429" THEN "chart" ELSE IF oq = "http429" THEN "quote" ELSE "no"

ParseChart(o) == IF o = "ok" THEN "chart" ELSE "None"
ParseQuote(o) == IF o = "ok" THEN QuoteFields ELSE EmptyDict

YahooData(a, q, c) ==
    [provider |-> "yahoo", agent |-> AgentName(a), raw_quote |-> q, raw_chart |-> c]

\* YahooAgent.fetch at pool position a, the chart request ending oc and the
\* quote-summary request (made unless the chart request raised) ending oq:
\* cool - the client cooled itself down, exc - an exception leaves fetch
YahooFetch_swallows429(a, oc, oq) ==
    [exc |-> FALSE, cool |-> Saw429(oc, oq) # "no",
     data |-> YahooData(a, IF Saw429(oc, oq) # "no" THEN EmptyDict ELSE ParseQuote(oq),
                        ParseChart(oc))]
YahooFetch(a, oc, oq) ==
    IF Reraised(oc)
      THEN [exc |-> TRUE, cool |-> oc = "http429", data |-> None]
      ELSE IF Reraised(oq)
             THEN [exc |-> TRUE, cool |-> oq = "http429", data |-> None]
             ELSE [exc |-> FALSE, cool |-> FALSE,
                   data |-> YahooData(a, ParseQuote(oq), ParseChart(oc))]

\* ---- AlphaAgent (src/providers) ----------------------------------------
AlphaOutcomes == {"nokey", "ok", "nosymbol", "httperror", "badnumber"}
AlphaRecord == [provider |-> "alpha_vantage", symbol |-> "SYM"]

\* the upstream answered with an overview record every field of which converts
AlphaYields(o) == IF o = "ok" THEN "data" ELSE "nodata"

AlphaFetch_unguarded(o) ==
    IF o \in {"httperror", "badnumber"} THEN [exc |-> TRUE, ret |-> None]
    ELSE [exc |-> FALSE, ret |-> IF o = "ok" THEN AlphaRecord ELSE None]
AlphaFetch(o) ==
    [exc |-> FALSE, ret |-> IF o = "ok" THEN AlphaRecord ELSE None]

\* ---- MasterAgent --------------------------------------------------------
NextIndex_stuck(i, len) == i
NextIndex_skips(i, len) == (i + 2) % len
NextIndex_nowrap(i, len) == i + 1
NextIndex(i, len) == (i + 1) % len

\* data and data.get("raw_quote")
Valid(data) == data.raw_quote # EmptyDict

Tagged_untagged(data, a) == data
Tagged(data, a) == [k \in DOMAIN data \cup {"source"} |->
                      IF k = "source" THEN AgentName(a) ELSE data[k]]

\* the deadline of the client at position a lies ahead
CoolingDown(a) == now < cooldown_until[a]
Idle == \A t \in Threads : pc[t] = "idle"

MasterInit ==
    /\ n \in 1..MaxPool
    /\ index = 0
    /\ cooldown_until = [a \in Pool(n) |-> 0]
    /\ now = StartTime
    /\ pc = [t \in Threads |-> "idle"]
    /\ attempt = [t \in Threads |-> 0]
    /\ attempts = [t \in Threads |-> 0]
    /\ agent = [t \in Threads |-> NoAgent]
    /\ tmp = [t \in Threads |-> 0]
    /\ result = [t \in Threads |-> Unset]
    /\ tried = [t \in Threads |-> <<>>]
    /\ swept = [t \in Threads |-> {}]
    /\ sole = [t \in Threads |-> FALSE]
    /\ allAvail = [t \in Threads |-> FALSE]
    /\ alphaCalls = [t \in Threads |-> 0]
    /\ alphaOut = [t \in Threads |-> "none"]
    /\ slowCalls = 0
    /\ reqs = 0
    /\ served = 0
    /\ selCount = [a \in Pool(n) |-> 0]
    /\ clean = TRUE
    /\ soleFail = [a \in Pool(n) |-> Never]
    /\ selStart = [t \in Threads |-> 0]
    /\ hit429 = [t \in Threads |-> "no"]
    /\ fallback = [t \in Threads |-> <<>>]

\* NewsMasterAgent.__init__
NewsInit ==
    /\ news_index = 0
    /\ news_pc = "idle"
    /\ news_i = 0
    /\ raw_news = <<>>
    /\ news_result = Unset
    /\ news_handed = Unset
    /\ news_called = <<>>
    /\ news_failed = {}
    /\ news_start = 0
    /\ news_reqs = 0

\* YahooAgent.__init__ of either file
ClientNew ==
    /\ c_cooldown_until = 0
    /\ clock = StartTime
    /\ seen = NoCall
    /\ lastSet = NoCall

Init == MasterInit /\ NewsInit /\ ClientNew /\ impl = "providers"

\* ---- steps of one request --------------------------------------------------
\* the head of `for attempt in range(len(self.yahoo_agents))` with k the next
\* value of attempt: enter _get_next_yahoo, or leave the loop for the fallback
LoopHead_one_more(t, k) ==
    /\ attempt' = [attempt EXCEPT ![t] = k]
    /\ attempts' = [attempts EXCEPT ![t] = 0]
    /\ swept' = [swept EXCEPT ![t] = {}]
    /\ agent' = [agent EXCEPT ![t] = NoAgent]
    /\ selStart' = [selStart EXCEPT ![t] = index]
    /\ pc' = [pc EXCEPT ![t] = IF k <= n THEN "sel_read" ELSE "alpha"]
LoopHead(t, k) ==
    /\ attempt' = [attempt EXCEPT ![t] = k]
    /\ attempts' = [attempts EXCEPT ![t] = 0]
    /\ swept' = [swept EXCEPT ![t] = {}]
    /\ agent' = [agent EXCEPT ![t] = NoAgent]
    /\ selStart' = [selStart EXCEPT ![t] = index]
    /\ pc' = [pc EXCEPT ![t] = IF k < n THEN "sel_read" ELSE "alpha"]

\* a request stopped being a first-attempt success
Unclean ==
    /\ clean' = FALSE
    /\ selCount' = [a \in Pool(n) |-> 0]

\* a caller invokes fetch_financials; at most `limit` requests are modelled
Enter(t, limit) ==
    /\ pc[t] = "idle"
    /\ reqs < limit
    /\ reqs' = reqs + 1
    /\ LoopHead(t, 0)
    /\ allAvail' = [allAvail EXCEPT ![t] = \A a \in Pool(n) : ~CoolingDown(a)]
    /\ UNCHANGED <<newsVars, clientVars>>
    /\ UNCHANGED <<n, index, cooldown_until, now, tmp, result, tried,
                   sole, alphaCalls, alphaOut, slowCalls, served, selCount, clean,
                   soleFail, hit429, fallback>>

\* ... while no other request is running
Begin(t, limit) == Idle /\ Enter(t, limit)

\* ... while another thread's request is running
BeginConc(t) == ~Idle /\ n <= ConcPool /\ Enter(t, MaxConcRequests)

\* _get_next_yahoo, lines 19-20: loop test and agent = self.yahoo_agents[self.index];
\* line 25 and fetch_financials line 31: no client, break
SelRead(t) ==
    /\ pc[t] = "sel_read"
    /\ IF attempts[t] < n
         THEN /\ agent' = [agent EXCEPT ![t] = index]
              /\ pc' = [pc EXCEPT ![t] = "adv_read"]
         ELSE /\ agent' = [agent EXCEPT ![t] = NoAgent]
              /\ pc' = [pc EXCEPT ![t] = "alpha"]
    /\ UNCHANGED <<newsVars, clientVars>>
    /\ UNCHANGED <<n, index, cooldown_until, now, attempt, attempts, tmp,
                   result, tried, swept, sole, allAvail, alphaCalls,
                   alphaOut, slowCalls, reqs, served, selCount, clean, soleFail,
                   selStart, hit429, fallback>>

\* line 21, right-hand side: self.index is read
AdvRead(t) ==
    /\ pc[t] = "adv_read"
    /\ tmp' = [tmp EXCEPT ![t] = index]
    /\ pc' = [pc EXCEPT ![t] = "adv_write"]
    /\ UNCHANGED <<newsVars, clientVars>>
    /\ UNCHANGED <<n, index, cooldown_until, now, attempt, attempts, agent,
                   result, tried, swept, sole, allAvail, alphaCalls,
                   alphaOut, slowCalls, reqs, served, selCount, clean, soleFail,
                   selStart, hit429, fallback>>

\* line 21, assignment: self.index = (read value + 1) % len
AdvWrite(t) ==
    /\ pc[t] = "adv_write"
    /\ index' = NextIndex(tmp[t], n)
    /\ tmp' = [tmp EXCEPT ![t] = 0]
    /\ pc' = [pc EXCEPT ![t] = "check"]
    /\ UNCHANGED <<newsVars, clientVars>>
    /\ UNCHANGED <<n, cooldown_until, now, attempt, attempts, agent,
                   result, tried, swept, sole, allAvail, alphaCalls,
                   alphaOut, slowCalls, reqs, served, selCount, clean, soleFail,
                   selStart, hit429, fallback>>

\* lines 22-24: if agent.is_available(): return agent; else attempts += 1
Check(t) ==
    /\ pc[t] = "check"
    /\ IF is_available(cooldown_until[agent[t]], now)
         THEN /\ pc' = [pc EXCEPT ![t] = "fetch"]
              /\ sole' = [sole EXCEPT ![t] =
                            \A b \in Pool(n) \ {agent[t]} : CoolingDown(b)]
              /\ selCount' = IF clean
                               THEN [selCount EXCEPT ![agent[t]] = @ + 1]
                               ELSE selCount
              /\ UNCHANGED <<attempts, swept>>
         ELSE /\ pc' = [pc EXCEPT ![t] = "sel_read"]
              /\ attempts' = [attempts EXCEPT ![t] = @ + 1]
              /\ swept' = [swept EXCEPT ![t] = @ \cup {agent[t]}]
              /\ UNCHANGED <<sole, selCount>>
    /\ UNCHANGED <<newsVars, clientVars>>
    /\ UNCHANGED <<n, index, cooldown_until, now, attempt, agent, tmp,
                   result, tried, allAvail, alphaCalls, alphaOut,
                   slowCalls, reqs, served, clean, soleFail,
                   selStart, hit429, fallback>>

\* an upstream call returns after d seconds
Elapse(d) ==
    /\ now + d <= MaxTime
    /\ d > 0 => slowCalls < MaxSlowCalls
    /\ now' = now + d
    /\ slowCalls' = IF d > 0 THEN slowCalls + 1 ELSE slowCalls

\* the request's primary fetch of `agent` ended in the given way
Tried(t, kind) == tried' = [tried EXCEPT ![t] = Append(@, <<agent[t], kind>>)]

\* fetch_financials lines 33-36: data = agent.fetch(ticker), taking d seconds,
\* and the test of the returned data; an exception goes to the handler
Fetch(t) ==
    /\ pc[t] = "fetch"
    /\ \E oc \in ChartOutcomes, oq \in QuoteOutcomes, d \in CallDelays :
         LET r == YahooFetch(agent[t], oc, oq)
         IN  /\ Elapse(d)
             /\ hit429' = [hit429 EXCEPT ![t] = Saw429(oc, oq)]
             /\ IF r.cool
                  THEN cooldown_until' = [cooldown_until EXCEPT ![agent[t]] =
                                            set_cooldown(now', CooldownSecs)]
                  ELSE UNCHANGED cooldown_until
             /\ IF r.exc
                  THEN /\ pc' = [pc EXCEPT ![t] = "except"]
                       /\ Tried(t, "ratelimit")
                       /\ Unclean
                       /\ UNCHANGED <<attempt, attempts, swept, agent, result,
                                      selStart>>
                  ELSE IF Valid(r.data)
                         THEN /\ result' = [result EXCEPT ![t] = Tagged(r.data, agent[t])]
                              /\ pc' = [pc EXCEPT ![t] = "done"]
                              /\ Tried(t, "ok")
                              /\ UNCHANGED <<attempt, attempts, swept, agent,
                                             clean, selCount, selStart>>
                         ELSE /\ LoopHead(t, attempt[t] + 1)
                              /\ Tried(t, "empty")
                              /\ Unclean
                              /\ UNCHANGED result
    /\ soleFail' = [soleFail EXCEPT ![agent[t]] = Never]
    /\ UNCHANGED <<newsVars, clientVars>>
    /\ UNCHANGED <<n, index, tmp, sole, allAvail, alphaCalls, alphaOut, reqs,
                   served, fallback>>

\* fetch_financials lines 37-40: except Exception: agent.set_cooldown(300); continue
Except(t) ==
    /\ pc[t] = "except"
    /\ cooldown_until' = [cooldown_until EXCEPT ![agent[t]] =
                            set_cooldown(now, CooldownSecs)]
    /\ soleFail' = IF sole[t] THEN [soleFail EXCEPT ![agent[t]] = now] ELSE soleFail
    /\ LoopHead(t, attempt[t] + 1)
    /\ hit429' = [hit429 EXCEPT ![t] = "no"]
    /\ UNCHANGED <<newsVars, clientVars>>
    /\ UNCHANGED <<n, index, now, tmp, result, tried,
                   sole, allAvail, alphaCalls, alphaOut, slowCalls, reqs, served,
                   selCount, clean, fallback>>

Alpha_skipped(t) ==
    /\ pc[t] = "alpha"
    /\ pc' = [pc EXCEPT ![t] = "done"]
    /\ result' = [result EXCEPT ![t] = None]
    /\ Unclean
    /\ UNCHANGED <<newsVars, clientVars>>
    /\ UNCHANGED <<n, index, cooldown_until, now, attempt, attempts, agent,
                   tmp, tried, swept, sole, allAvail, alphaCalls, alphaOut,
                   slowCalls, reqs, served, soleFail, selStart, hit429, fallback>>

\* fetch_financials lines 42-43: return self.alpha.fetch(ticker)
Alpha_then_finnhub(t) ==
    /\ pc[t] = "alpha"
    /\ \E o \in AlphaOutcomes :
         LET r == AlphaFetch(o)
         IN  /\ alphaOut' = [alphaOut EXCEPT ![t] = AlphaYields(o)]
             /\ pc' = [pc EXCEPT ![t] = "done"]
             /\ result' = [result EXCEPT ![t] = r.ret]
             /\ fallback' = [fallback EXCEPT ![t] =
                                IF r.ret = None
                                  THEN @ \o <<AlphaRecord.provider, "finnhub">>
                                  ELSE Append(@, AlphaRecord.provider)]
    /\ alphaCalls' = [alphaCalls EXCEPT ![t] = @ + 1]
    /\ Unclean
    /\ UNCHANGED <<newsVars, clientVars>>
    /\ UNCHANGED <<n, index, cooldown_until, now, attempt, attempts, agent,
                   tmp, tried, swept, sole, allAvail, slowCalls,
                   reqs, served, soleFail, selStart, hit429>>
Alpha_rotates(t) ==
    /\ pc[t] = "alpha"
    /\ \E o \in AlphaOutcomes :
         LET r == AlphaFetch(o)
         IN  /\ alphaOut' = [alphaOut EXCEPT ![t] = AlphaYields(o)]
             /\ IF r.exc
                  THEN /\ pc' = [pc EXCEPT ![t] = "raised"]
                       /\ UNCHANGED result
                  ELSE /\ pc' = [pc EXCEPT ![t] = "done"]
                       /\ result' = [result EXCEPT ![t] = r.ret]
    /\ alphaCalls' = [alphaCalls EXCEPT ![t] = @ + 1]
    /\ fallback' = [fallback EXCEPT ![t] = Append(@, AlphaRecord.provider)]
    /\ Unclean
    /\ UNCHANGED <<newsVars, clientVars>>
    /\ index' = NextIndex(index, n)
    /\ UNCHANGED <<n, cooldown_until, now, attempt, attempts, agent,
                   tmp, tried, swept, sole, allAvail, slowCalls,
                   reqs, served, soleFail, selStart, hit429>>
Alpha(t) ==
    /\ pc[t] = "alpha"
    /\ \E o \in AlphaOutcomes :
         LET r == AlphaFetch(o)
         IN  /\ alphaOut' = [alphaOut EXCEPT ![t] = AlphaYields(o)]
             /\ IF r.exc
                  THEN /\ pc' = [pc EXCEPT ![t] = "raised"]
                       /\ UNCHANGED result
                  ELSE /\ pc' = [pc EXCEPT ![t] = "done"]
                       /\ result' = [result EXCEPT ![t] = r.ret]
    /\ alphaCalls' = [alphaCalls EXCEPT ![t] = @ + 1]
    /\ fallback' = [fallback EXCEPT ![t] = Append(@, AlphaRecord.provider)]
    /\ Unclean
    /\ UNCHANGED <<newsVars, clientVars>>
    /\ UNCHANGED <<n, index, cooldown_until, now, attempt, attempts, agent,
                   tmp, tried, swept, sole, allAvail, slowCalls,
                   reqs, served, soleFail, selStart, hit429>>

\* the caller has the outcome of fetch_financials; the frame is gone
Return(t) ==
    /\ pc[t] \in {"done", "raised"}
    /\ pc' = [pc EXCEPT ![t] = "idle"]
    /\ served' = served + 1
    /\ attempt' = [attempt EXCEPT ![t] = 0]
    /\ attempts' = [attempts EXCEPT ![t] = 0]
    /\ agent' = [agent EXCEPT ![t] = NoAgent]
    /\ result' = [result EXCEPT ![t] = Unset]
    /\ tried' = [tried EXCEPT ![t] = <<>>]
    /\ swept' = [swept EXCEPT ![t] = {}]
    /\ sole' = [sole EXCEPT ![t] = FALSE]
    /\ allAvail' = [allAvail EXCEPT ![t] = FALSE]
    /\ alphaCalls' = [alphaCalls EXCEPT ![t] = 0]
    /\ alphaOut' = [alphaOut EXCEPT ![t] = "none"]
    /\ selStart' = [selStart EXCEPT ![t] = 0]
    /\ hit429' = [hit429 EXCEPT ![t] = "no"]
    /\ fallback' = [fallback EXCEPT ![t] = <<>>]
    /\ UNCHANGED <<newsVars, clientVars>>
    /\ UNCHANGED <<n, index, cooldown_until, now, tmp, slowCalls,
                   reqs, selCount, clean, soleFail>>

\* time passes between requests
Wait ==
    /\ Idle
    /\ \E d \in IdleWaits : now + d <= MaxTime /\ now' = now + d
    /\ UNCHANGED <<newsVars, clientVars>>
    /\ UNCHANGED <<n, index, cooldown_until, pc, attempt, attempts, agent,
                   tmp, result, tried, swept, sole, allAvail,
                   alphaCalls, alphaOut, slowCalls, reqs, served, selCount, clean,
                   soleFail, selStart, hit429, fallback>>

Step(t) ==
    \/ SelRead(t)
    \/ AdvRead(t)
    \/ AdvWrite(t)
    \/ Check(t)
    \/ Fetch(t)
    \/ Except(t)
    \/ Alpha(t)
    \/ Return(t)

\* requests one after another
Next ==
    \/ Begin("t1", MaxRequests)
    \/ \E t \in Threads : Step(t)
    \/ Wait

Spec == Init /\ [][Next]_vars

\* requests one after another; a request that has started keeps running (every
\* provider call returns or raises) and the clock keeps advancing
NextLive ==
    \/ Begin("t1", MaxLiveRequests)
    \/ \E t \in Threads : Step(t)
    \/ Wait

SpecLive ==
    /\ Init /\ [][NextLive]_vars
    /\ \A t \in Threads : WF_vars(Step(t))
    /\ WF_vars(Wait)

\* requests of two threads, interleaved line by line
NextConc ==
    \/ Begin("t1", MaxConcRequests)
    \/ \E t \in Threads : BeginConc(t)
    \/ \E t \in Threads : Step(t)
    \/ Wait

SpecConc == Init /\ [][NextConc]_vars

\* ---- NewsMasterAgent ----------------------------------------------------------
\* self.agents, by class name, and the source label each writes into its items
NewsAgents == <<"YahooNewsAgent", "MarketWatchAgent", "GoogleNewsAgent">>
NewsLabels == <<"Yahoo Finance", "MarketWatch", "Google News">>
NumNews == Len(NewsAgents)

\* position of the agent tried in iteration i
NewsAgentAt_fixed(idx, i) == idx
NewsAgentAt(idx, i) == (idx + i) % NumNews

\* self.index = (self.index + 1) % len(self.agents)
NewsNextIndex_stays(idx) == idx
NewsNextIndex(idx) == (idx + 1) % NumNews

\* the items agent a parses out of a feed of len entries
RawNews(a, len) ==
    [k \in 1..len |-> [headline |-> k, source |-> NewsLabels[a + 1]]]

\* {**n, "headline_he": hebrew}
WithHebrew(item) ==
    [f \in DOMAIN item \cup {"headline_he"} |->
        IF f = "headline_he" THEN <<"he", item.headline>> ELSE item[f]]

\* one iteration of `for n in raw_news`; raised: translator.translate raised
TranslateStep_drops(translated, item, raised) ==
    IF raised THEN translated ELSE Append(translated, WithHebrew(item))
TranslateStep(translated, item, raised) ==
    IF raised THEN Append(translated, item) ELSE Append(translated, WithHebrew(item))

\* the loop from item k on, the translations of the positions in F raising
RECURSIVE TranslateFrom(_, _, _, _)
TranslateFrom(raw, F, k, translated) ==
    IF k > Len(raw) THEN translated
    ELSE TranslateFrom(raw, F, k + 1, TranslateStep(translated, raw[k], k \in F))

NewsRecord(a, translated) ==
    [ticker |-> "SYM", count |-> Len(translated), items |-> translated,
     source |-> NewsAgents[a + 1], timestamp |-> "utcnow"]
EmptyNews == [ticker |-> "SYM", count |-> 0, items |-> <<>>, source |-> "None"]

InitNews ==
    /\ MasterInit /\ n = 1
    /\ NewsInit
    /\ ClientNew /\ impl = "providers"

\* MasterAgent.fetch_news: return self.news.get_news(ticker); get_news is an
\* async def, so the call builds a coroutine and runs nothing of its body
FetchNews ==
    /\ news_pc = "idle"
    /\ news_reqs < MaxNewsRequests
    /\ news_reqs' = news_reqs + 1
    /\ news_handed' = Coroutine
    /\ news_pc' = "created"
    /\ UNCHANGED <<news_index, news_i, raw_news, news_result, news_called,
                   news_failed, news_start>>
    /\ UNCHANGED <<clientVars, masterVars>>

\* the coroutine is awaited: get_news starts its loop
NewsAwait ==
    /\ news_pc = "created"
    /\ news_pc' = "try"
    /\ news_i' = 0
    /\ news_start' = news_index
    /\ UNCHANGED <<news_index, raw_news, news_result, news_handed, news_called,
                   news_failed, news_reqs>>
    /\ UNCHANGED <<clientVars, masterVars>>

\* get_news, one iteration: the agent's fetch raises, or it returns len items,
\* the cursor advances and the items are translated and returned
NewsTry ==
    /\ news_pc = "try"
    /\ news_i < NumNews
    /\ LET a == NewsAgentAt(news_index, news_i)
       IN  /\ news_called' = Append(news_called, a)
           /\ \/ /\ news_i' = news_i + 1
                 /\ UNCHANGED <<news_index, news_pc, raw_news, news_result,
                                news_failed>>
              \/ \E len \in 0..MaxItems : \E F \in SUBSET (1..len) :
                    /\ news_index' = NewsNextIndex(news_index)
                    /\ raw_news' = RawNews(a, len)
                    /\ news_failed' = F
                    /\ news_result' =
                           NewsRecord(a, TranslateFrom(RawNews(a, len), F, 1, <<>>))
                    /\ news_pc' = "done"
                    /\ UNCHANGED news_i
    /\ UNCHANGED <<news_handed, news_start, news_reqs>>
    /\ UNCHANGED <<clientVars, masterVars>>

\* get_news, after the loop: every agent raised
NewsExhausted ==
    /\ news_pc = "try"
    /\ news_i = NumNews
    /\ news_result' = EmptyNews
    /\ news_pc' = "done"
    /\ UNCHANGED <<news_index, news_i, raw_news, news_handed, news_called,
                   news_failed, news_start, news_reqs>>
    /\ UNCHANGED <<clientVars, masterVars>>

\* the awaiting caller has the record; the frame is gone
NewsReturn ==
    /\ news_pc = "done"
    /\ news_pc' = "idle"
    /\ news_i' = 0
    /\ raw_news' = <<>>
    /\ news_result' = Unset
    /\ news_handed' = Unset
    /\ news_called' = <<>>
    /\ news_failed' = {}
    /\ news_start' = 0
    /\ UNCHANGED <<news_index, news_reqs>>
    /\ UNCHANGED <<clientVars, masterVars>>

NextNews ==
    \/ FetchNews
    \/ NewsAwait
    \/ NewsTry
    \/ NewsExhausted
    \/ NewsReturn

SpecNews == InitNews /\ [][NextNews]_vars

\* ---- both agents of MasterAgent --------------------------------------------------
\* MasterAgent's financial requests, interleaved, or its news requests; the two
\* share no state, so a behaviour follows one of them.  The cursors do not
\* depend on the clock: every provider call here returns at once
NextCursors ==
    \/ news_reqs = 0 /\ n <= ConcPool /\ Begin("t1", MaxConcRequests)
    \/ news_reqs = 0 /\ \E t \in Threads : BeginConc(t)
    \/ \E t \in Threads : Step(t) /\ UNCHANGED now
    \/ reqs = 0 /\ NextNews

SpecCursors == Init /\ [][NextCursors]_vars

\* ---- one YahooAgent, called directly ------------------------------------------
Impls == {"providers", "root"}
Seconds == 0..MaxSeconds

\* is_available() of the file the client is built from
IsAvailableOf(im, cd, t) ==
    IF im = "root" THEN root_is_available(cd, t) ELSE is_available(cd, t)

InitClient ==
    /\ MasterInit /\ n = 1
    /\ NewsInit
    /\ ClientNew
    /\ impl \in Impls

\* a caller evaluates agent.is_available()
ClientIsAvailable_clears ==
    /\ seen' = [at |-> clock,
                val |-> IsAvailableOf(impl, c_cooldown_until, clock),
                reps |-> IF seen # NoCall /\ seen.at = clock THEN 2 ELSE 1]
    /\ c_cooldown_until' = IF IsAvailableOf(impl, c_cooldown_until, clock)
                              THEN 0 ELSE c_cooldown_until
    /\ UNCHANGED <<impl, clock, lastSet, newsVars>>
    /\ UNCHANGED masterVars
ClientIsAvailable ==
    /\ seen' = [at |-> clock,
                val |-> IsAvailableOf(impl, c_cooldown_until, clock),
                reps |-> IF seen # NoCall /\ seen.at = clock THEN 2 ELSE 1]
    /\ UNCHANGED <<impl, c_cooldown_until, clock, lastSet, newsVars>>
    /\ UNCHANGED masterVars

\* a caller evaluates agent.set_cooldown(seconds)
ClientSetCooldown ==
    /\ \E seconds \in Seconds :
         /\ c_cooldown_until' = set_cooldown(clock, seconds)
         /\ lastSet' = [at |-> clock, seconds |-> seconds, prev |-> c_cooldown_until]
    /\ seen' = NoCall
    /\ UNCHANGED <<impl, clock, newsVars>>
    /\ UNCHANGED masterVars

\* a second passes
ClientTick ==
    /\ clock < MaxClock
    /\ clock' = clock + 1
    /\ UNCHANGED <<impl, c_cooldown_until, seen, lastSet, newsVars>>
    /\ UNCHANGED masterVars

NextClient ==
    \/ ClientIsAvailable
    \/ ClientSetCooldown
    \/ ClientTick

SpecClient == InitClient /\ [][NextClient]_vars

TypeOK ==
    /\ n \in 1..MaxPool
    /\ index \in Nat
    /\ now \in StartTime..MaxTime
    /\ \A t \in Threads : pc[t] \in {"idle", "sel_read", "adv_read", "adv_write",
                                     "check", "fetch", "except", "alpha",
                                     "done", "raised"}

\* ---- properties ------------------------------------------------------------
Last(s) == s[Len(s)]
Finished(t) == pc[t] \in {"done", "raised"}
PrimaryOk(t) == tried[t] # <<>> /\ Last(tried[t])[2] = "ok"
KindsTried(t) == {tried[t][i][2] : i \in 1..Len(tried[t])}

\* C1: a selection never returns a client that is cooling down while a client
\* not yet examined in that sweep is available.
C1_NoCoolingSelected ==
    \A t \in Threads :
        pc[t] = "fetch" =>
            ~(/\ CoolingDown(agent[t])
              /\ \E b \in Pool(n) \ (swept[t] \cup {agent[t]}) : ~CoolingDown(b))

C1_Witness ==
    \E t \in Threads :
        /\ pc[t] = "fetch"
        /\ swept[t] # {}
        /\ \A b \in swept[t] : CoolingDown(b)
        /\ ~CoolingDown(agent[t])
        /\ \E b \in Pool(n) \ (swept[t] \cup {agent[t]}) : ~CoolingDown(b)

\* C2: a request that ends without a primary result has called the fallback
\* exactly once, and it hands back no data only if that call gave none.
C2_OneFallbackCall ==
    \A t \in Threads :
        Finished(t) =>
            /\ ~PrimaryOk(t) => alphaCalls[t] = 1
            /\ result[t] = None =>
                   ~PrimaryOk(t) /\ alphaCalls[t] = 1 /\ alphaOut[t] = "nodata"

C2_Witness ==
    \E t \in Threads :
        /\ pc[t] = "done"
        /\ n >= 2
        /\ Len(tried[t]) = n
        /\ "ok" \notin KindsTried(t)
        /\ alphaCalls[t] = 1
        /\ result[t] = None

\* C3: when the only available client fails with a rate limit, the request
\* leaves it cooling down until CooldownSecs after the handler ran, and no
\* selection returns it before then.
C3_SoleClientCooled ==
    \A t \in Threads :
        /\ (Finished(t) /\ tried[t] # <<>> /\ sole[t]
              /\ Last(tried[t])[2] = "ratelimit") =>
               LET k == Last(tried[t])[1]
               IN  /\ cooldown_until[k] = soleFail[k] + CooldownSecs
                   /\ CoolingDown(k)
        /\ (pc[t] = "fetch" /\ soleFail[agent[t]] # Never) =>
               now >= soleFail[agent[t]] + CooldownSecs

C3_Witness ==
    \E t \in Threads, k \in Pool(n) :
        /\ n >= 2
        /\ \A i \in 1..Len(tried[t]) : tried[t][i][1] # k
        /\ k \in swept[t]
        /\ soleFail[k] # Never
        /\ served >= 2
        /\ now < soleFail[k] + CooldownSecs

\* C4: with every client available at the start, a request whose first attempt
\* succeeds returns that client's data tagged with its name and never calls
\* the fallback.
C4_FirstAttemptSuccess ==
    \A t \in Threads :
        (Finished(t) /\ allAvail[t] /\ tried[t] # <<>> /\ tried[t][1][2] = "ok") =>
            LET a == tried[t][1][1]
            IN  /\ pc[t] = "done"
                /\ DOMAIN result[t] =
                       {"provider", "agent", "raw_quote", "raw_chart", "source"}
                /\ result[t].source = AgentName(a)
                /\ result[t].agent = AgentName(a)
                /\ result[t].raw_quote = QuoteFields
                /\ alphaCalls[t] = 0

C4_Witness ==
    \E t \in Threads :
        /\ pc[t] = "done"
        /\ allAvail[t]
        /\ n = MaxPool
        /\ tried[t] = <<<<n - 1, "ok">>>>
        /\ alphaCalls[t] = 0

\* C5: in a request begun with every client available, if the first j clients
\* tried are rate limited and the next succeeds, the result carries the
\* succeeding client's name, the j clients are unavailable and it is available.
C5_FailoverCoolsFailed ==
    \A t \in Threads :
        (/\ pc[t] = "done"
         /\ allAvail[t]
         /\ Len(tried[t]) >= 2
         /\ \A i \in 1..(Len(tried[t]) - 1) : tried[t][i][2] = "ratelimit"
         /\ Last(tried[t])[2] = "ok") =>
            /\ "source" \in DOMAIN result[t]
            /\ result[t].source = AgentName(Last(tried[t])[1])
            /\ result[t].raw_quote = QuoteFields
            /\ \A i \in 1..(Len(tried[t]) - 1) : CoolingDown(tried[t][i][1])
            /\ ~CoolingDown(Last(tried[t])[1])

C5_Witness ==
    \E t \in Threads :
        /\ pc[t] = "done"
        /\ allAvail[t]
        /\ tried[t] = <<<<0, "ratelimit">>, <<1, "ratelimit">>, <<2, "ok">>>>
        /\ result[t].source = AgentName(2)

\* C6: after M >= N requests that each succeeded on the first attempt, every
\* client was selected at least floor(M/N) and at most ceil(M/N) times.
C6_RoundRobinFair ==
    (clean /\ Idle /\ served >= n) =>
        \A a \in Pool(n) :
            /\ selCount[a] >= served \div n
            /\ selCount[a] <= (served + n - 1) \div n

C6_Witness ==
    /\ clean
    /\ Idle
    /\ n = 2
    /\ served = 3
    /\ selCount[0] = 2
    /\ selCount[1] = 1

\* C7: with no more threads than clients, two requests are never inside a
\* fetch of the same client at once.
C7_NoOverlappingDispatch ==
    Cardinality(Threads) <= n =>
        \A t1, t2 \in Threads :
            (t1 # t2 /\ pc[t1] = "fetch" /\ pc[t2] = "fetch") =>
                agent[t1] # agent[t2]

\* C8: once a primary attempt has failed, the attempted client is cooling down
\* when the orchestrator moves on.
C8_FailedAttemptCools ==
    \A t \in Threads :
        (pc[t] \in {"sel_read", "alpha"} /\ tried[t] # <<>>) =>
            CoolingDown(Last(tried[t])[1])

\* C9: when no tier yields data the request ends in an aggregate error, not in
\* a null result.
IsAggregateError(r) == "error" \in DOMAIN r

C9_AggregateError ==
    \A t \in Threads :
        (Finished(t) /\ ~PrimaryOk(t) /\ alphaOut[t] = "nodata") =>
            IsAggregateError(result[t])

\* C10: no provider exception leaves fetch_financials; every request ends by
\* returning a value.
C10_NoProviderException ==
    \A t \in Threads :
        /\ pc[t] # "raised"
        /\ pc[t] = "done" => result[t] # Unset

C10_Witness ==
    \E t \in Threads :
        /\ pc[t] = "done"
        /\ "ratelimit" \in KindsTried(t)
        /\ "empty" \in KindsTried(t)
        /\ alphaCalls[t] = 1
        /\ alphaOut[t] = "nodata"
        /\ result[t] = None

\* C11: every value fetch_financials returns is a record, never null, with a
\* source field naming the provider that produced it.
C11_SourcedRecord ==
    \A t \in Threads :
        pc[t] = "done" =>
            /\ result[t] # None
            /\ "source" \in DOMAIN result[t]

\* C12: when the chart or the quote-summary request of a fetch is answered with
\* HTTP 429, the client has set its own deadline to CooldownSecs from now when
\* the exception reaches the orchestrator's handler, and the exception does
\* reach it.
C12_RateLimitCoolsAndRaises ==
    \A t \in Threads :
        hit429[t] # "no" =>
            /\ pc[t] = "except"
            /\ cooldown_until[agent[t]] = now + CooldownSecs
            /\ Last(tried[t]) = <<agent[t], "ratelimit">>

C12_Witness ==
    \E t \in Threads :
        /\ hit429[t] = "quote"
        /\ pc[t] = "except"
        /\ Len(tried[t]) >= 2
        /\ cooldown_until[agent[t]] = now + CooldownSecs

\* C16 (as stated): after the primary pool is exhausted AlphaVantage is called
\* first and, when it yields no data, Finnhub is called next.
C16_AlphaThenFinnhub ==
    \A t \in Threads :
        (Finished(t) /\ ~PrimaryOk(t)) =>
            /\ Len(fallback[t]) >= 1
            /\ fallback[t][1] = "alpha_vantage"
            /\ alphaOut[t] = "nodata" => fallback[t] = <<"alpha_vantage", "finnhub">>

\* C16 (amended): after the primary pool is exhausted AlphaVantage is the only
\* fallback provider called, exactly once, whether or not it yields data.
C16_AlphaOnlyFallback ==
    \A t \in Threads :
        /\ fallback[t] \in {<<>>, <<"alpha_vantage">>}
        /\ (Finished(t) /\ ~PrimaryOk(t)) => fallback[t] = <<"alpha_vantage">>

C16_Witness ==
    \E t \in Threads :
        /\ pc[t] = "done"
        /\ Len(tried[t]) = n
        /\ ~PrimaryOk(t)
        /\ alphaOut[t] = "nodata"
        /\ fallback[t] = <<"alpha_vantage">>
        /\ result[t] = None

\* C20: a selection that returns a client has examined the clients from the
\* cursor on, each once, found all before the returned one unavailable and the
\* returned one available, and has advanced the cursor by one per client
\* examined; a selection that returns no client has examined each of the n
\* clients once and leaves the cursor where it was.
C20_SelectionSweep ==
    \A t \in Threads :
        /\ pc[t] = "fetch" =>
               /\ attempts[t] < n
               /\ Cardinality(swept[t]) = attempts[t]
               /\ swept[t] = {(selStart[t] + i) % n : i \in 0..(attempts[t] - 1)}
               /\ \A b \in swept[t] : CoolingDown(b)
               /\ agent[t] = (selStart[t] + attempts[t]) % n
               /\ ~CoolingDown(agent[t])
               /\ index = (selStart[t] + attempts[t] + 1) % n
        /\ (pc[t] = "alpha" /\ attempts[t] = n) =>
               /\ agent[t] = NoAgent
               /\ swept[t] = Pool(n)
               /\ \A b \in Pool(n) : CoolingDown(b)
               /\ index = selStart[t]

C20_Witness ==
    \E t \in Threads :
        /\ pc[t] = "alpha"
        /\ n >= 3
        /\ attempts[t] = n
        /\ selStart[t] # 0
        /\ index = selStart[t]

\* C13: is_available() answers true exactly when the current time has reached
\* the stored deadline, whichever yahoo_agent.py the client is built from.
C13_AvailableIffDeadlineReached ==
    seen # NoCall => (seen.val <=> seen.at >= c_cooldown_until)

\* C14: after set_cooldown(seconds) at time t the deadline is t + seconds,
\* whatever deadline was stored before.
C14_LastWriteWins ==
    lastSet # NoCall => c_cooldown_until = lastSet.at + lastSet.seconds

C14_Witness ==
    /\ lastSet # NoCall
    /\ lastSet.at > StartTime
    /\ lastSet.prev > lastSet.at
    /\ lastSet.seconds > 0
    /\ c_cooldown_until = lastSet.at + lastSet.seconds
    /\ c_cooldown_until # lastSet.prev

\* C15 (as stated): is_available() changes no state, and a call returns what
\* the call before it returned unless set_cooldown was called in between.
C15_RepeatSameValue ==
    [][ClientIsAvailable =>
          /\ UNCHANGED <<c_cooldown_until, clock, index, cooldown_until>>
          /\ seen # NoCall => seen'.val = seen.val]_vars

\* C15 (amended): is_available() changes no state; with no set_cooldown in
\* between, a call at the same clock reading returns what the call before it
\* returned, and once a call has returned true every later call does.
C15_PureAtSameTime ==
    [][ClientIsAvailable =>
          /\ UNCHANGED <<c_cooldown_until, clock, index, cooldown_until>>
          /\ (seen # NoCall /\ seen.at = clock) => seen'.val = seen.val
          /\ (seen # NoCall /\ seen.val) => seen'.val]_vars

C15_Witness ==
    /\ seen # NoCall
    /\ seen.reps = 2
    /\ seen.at = clock
    /\ ~seen.val
    /\ clock > StartTime

\* C17: get_news calls the agents in rotation order from the cursor, each at
\* most once, stops at the first whose fetch does not raise and returns that
\* agent's items.
C17_RotationOrder ==
    /\ Len(news_called) <= NumNews
    /\ \A k \in 1..Len(news_called) :
           news_called[k] = (news_start + k - 1) % NumNews
    /\ Cardinality({news_called[k] : k \in 1..Len(news_called)}) = Len(news_called)
    /\ news_pc = "try" => Len(news_called) = news_i
    /\ (news_pc = "done" /\ news_result # EmptyNews) =>
           /\ news_called # <<>>
           /\ news_result.source = NewsAgents[Last(news_called) + 1]
           /\ news_result.count = Len(raw_news)
           /\ \A k \in 1..Len(news_result.items) :
                  news_result.items[k].source = NewsLabels[Last(news_called) + 1]
    /\ (news_pc = "done" /\ news_result = EmptyNews) =>
           Len(news_called) = NumNews

C17_Witness ==
    /\ news_pc = "done"
    /\ news_called = <<1, 2, 0>>
    /\ news_result.source = "YahooNewsAgent"
    /\ news_result.count >= 1

\* C18: whichever translations raise, get_news returns the fetching agent's
\* record with one item per fetched item in the fetched order, the items whose
\* translation raised unchanged and the others with the translated headline added.
C18_TranslationNonFatal ==
    (news_pc = "done" /\ news_result # EmptyNews) =>
        /\ news_result.source = NewsAgents[Last(news_called) + 1]
        /\ news_result.count = Len(raw_news)
        /\ Len(news_result.items) = Len(raw_news)
        /\ \A k \in 1..Len(raw_news) :
               IF k \in news_failed
                 THEN news_result.items[k] = raw_news[k]
                 ELSE /\ DOMAIN news_result.items[k] =
                            DOMAIN raw_news[k] \cup {"headline_he"}
                      /\ \A f \in DOMAIN raw_news[k] :
                             news_result.items[k][f] = raw_news[k][f]
                      /\ news_result.items[k].headline_he =
                            <<"he", raw_news[k].headline>>

C18_Witness ==
    /\ news_pc = "done"
    /\ Len(raw_news) = 2
    /\ news_failed = {1}
    /\ Len(news_result.items) = 2

\* C19: what MasterAgent.fetch_news hands its caller is a record with count,
\* items and source, count being the number of items.
C19_NewsRecordHanded ==
    news_handed # Unset =>
        /\ {"count", "items", "source"} \subseteq DOMAIN news_handed
        /\ news_handed.count = Len(news_handed.items)

\* C21: a request makes at most n primary fetches and at most one fallback
\* call, goes to the fallback as soon as a selection finds no available client,
\* and every request that has begun reaches its end.
C21_BoundedTermination ==
    /\ [](\A t \in Threads :
             /\ Len(tried[t]) <= n
             /\ alphaCalls[t] <= 1
             /\ attempt[t] <= n
             /\ alphaCalls[t] = 1 => Finished(t))
    /\ [][\A t \in Threads :
             (pc[t] = "sel_read" /\ attempts[t] = n /\ pc'[t] # pc[t]) =>
                 (pc'[t] = "alpha" /\ tried'[t] = tried[t])]_vars
    /\ \A t \in Threads : (pc[t] # "idle") ~> Finished(t)

C21_Witness ==
    \E t \in Threads :
        /\ pc[t] = "done"
        /\ n = MaxPool
        /\ Len(tried[t]) = n
        /\ KindsTried(t) = {"empty"}
        /\ alphaCalls[t] = 1

\* C22: selection is atomic: two requests are never both between reading the
\* cursor (line 20) and storing its advance (line 21) holding the same cursor
\* position, so no advance overwrites another.
C22_AtomicSelection ==
    n >= 2 =>
        \A t1, t2 \in Threads :
            (/\ t1 # t2
             /\ pc[t1] \in {"adv_read", "adv_write"}
             /\ pc[t2] \in {"adv_read", "adv_write"}) =>
                agent[t1] # agent[t2]

\* C23: the fallback call can be made whenever a request reaches it, whatever
\* earlier fallback calls gave, and it changes neither the rotation cursor nor
\* any primary client's deadline.
C23_FallbackFrame ==
    /\ [](\A t \in Threads : pc[t] = "alpha" => ENABLED Alpha(t))
    /\ [][\A t \in Threads :
             Alpha(t) => UNCHANGED <<index, cooldown_until>>]_vars

C23_Witness ==
    \E t \in Threads :
        /\ pc[t] = "done"
        /\ served >= 2
        /\ alphaCalls[t] = 1
        /\ alphaOut[t] = "data"
        /\ \E a \in Pool(n) : CoolingDown(a)
        /\ index # 0

\* C24: within one request no primary client is fetched more than once.
C24_NoClientFetchedTwice ==
    \A t \in Threads :
        \A i, j \in 1..Len(tried[t]) :
            i # j => tried[t][i][1] # tried[t][j][1]

\* C25: MasterAgent.index stays within 0..n-1 and NewsMasterAgent.index within
\* 0..2 in every reachable state.
C25_CursorsInRange ==
    /\ index \in 0..(n - 1)
    /\ news_index \in 0..(NumNews - 1)
    /\ NumNews = 3

C25_Witness ==
    /\ n = 2
    /\ index = n - 1
    /\ \E t1, t2 \in Threads :
           /\ t1 # t2
           /\ pc[t1] = "adv_write"
           /\ pc[t2] = "adv_write"
           /\ tmp[t1] = n - 1
           /\ tmp[t2] = n - 1

\* C26: a get_news request in which some agent's fetch succeeds leaves the
\* cursor one position (modulo 3) past where it was when the request began,
\* whichever agent succeeded; a request in which every fetch raises leaves the
\* cursor where it was.
C26_NewsCursorStep ==
    /\ news_pc = "try" => news_index = news_start
    /\ (news_pc = "done" /\ news_result # EmptyNews) =>
           news_index = (news_start + 1) % 3
    /\ (news_pc = "done" /\ news_result = EmptyNews) =>
           news_index = news_start

C26_Witness ==
    /\ news_pc = "done"
    /\ news_start = 2
    /\ Len(news_called) = 3
    /\ news_result.source = "MarketWatchAgent"
    /\ news_index = 0

\* C27: get_news returns the no-provider record (source "None", count 0, no
\* items) exactly when all three fetches raised, and a result with count 0
\* always has source "None".
C27_NoProviderOutcome ==
    news_pc = "done" =>
        /\ (news_result.source = "None") <=>
               (Len(news_called) = 3 /\ raw_news = <<>> /\ news_result = EmptyNews
                  /\ news_index = news_start)
        /\ news_result.source = "None" =>
               (news_result.count = 0 /\ news_result.items = <<>>)
        /\ news_result.count = 0 => news_result.source = "None"

\* C28: no client is suppressed forever.  A deadline is never more than 300 s
\* ahead of the clock, so 300 s passing without a failure leave every client
\* available; a request goes to the fallback without a primary fetch only
\* while every client is cooling down; and, the clock advancing, a pool whose
\* clients are all cooling down comes to have an available client.
AllCooling == \A a \in Pool(n) : CoolingDown(a)

C28_CooldownExpires ==
    /\ [](\A a \in Pool(n) : cooldown_until[a] <= now + CooldownSecs)
    /\ [][Wait => \A a \in Pool(n) : is_available(cooldown_until[a], now')]_vars
    /\ [](\A t \in Threads :
             (pc[t] = "alpha" /\ tried[t] = <<>>) => AllCooling)
    /\ (AllCooling /\ now + CooldownSecs <= MaxTime) ~> ~AllCooling

C28_Witness ==
    \E t \in Threads :
        /\ pc[t] = "fetch"
        /\ tried[t] = <<>>
        /\ n = MaxPool
        /\ \A a \in Pool(n) : cooldown_until[a] > StartTime
        /\ \A a \in Pool(n) : now >= cooldown_until[a]
        /\ served >= 1

====
